---- MODULE Spec2Model ----
(***************************************************************************)
(* Model of book_downloader.py: the cascading e-book search                *)
(* (show_progress_window / search_github / search_repo_for_epub) and the   *)
(* interactive main() that drives it.                                      *)
(*                                                                         *)
(* Python strings are modelled as sequences of one-character strings, so   *)
(* that splitting, stripping, lowercasing, substring tests, suffix tests   *)
(* and truncation are computed the way the code computes them.  The two    *)
(* non-ASCII characters that matter are written by code point:             *)
(* "U+FF0C" is the full-width comma, "U+4E66" a CJK character.             *)
(***************************************************************************)
EXTENDS Integers, Sequences, FiniteSets, TLC

(***************************************************************************)
(* Bounds of the model.                                                    *)
(***************************************************************************)
\* number of repositories in the known-repository list
NumRepos == 3
\* longest tree drawn in the matcher specification
MaxTree == 2

(***************************************************************************)
(* Program constants.                                                      *)
(***************************************************************************)
\* early-stop threshold and truncation of the known-repository scan
Cap == 20
\* longest display label handed to the list dialog
MaxLabel == 60
\* length of the label prefix kept before the "..." marker
KeepLabel == 57

(***************************************************************************)
(* String primitives (Python str methods).                                 *)
(***************************************************************************)
\* n copies of the character c
Rep(c, n) == [k \in 1..n |-> c]

\* s[:n]
Take(s, n) == SubSeq(s, 1, IF n < Len(s) THEN n ELSE Len(s))

\* str.isspace() for one character
IsSpace(c) == c \in {" ", "\t"}

\* str.lower() for one character; characters without case map to themselves
LowerChar(c) ==
    CASE c = "A" -> "a"
      [] c = "B" -> "b"
      [] c = "E" -> "e"
      [] c = "P" -> "p"
      [] c = "U" -> "u"
      [] OTHER -> c

\* str.lower()
Lower(s) == [k \in 1..Len(s) |-> LowerChar(s[k])]

\* s in t
IsSubstr(s, t) == \E k \in 0..(Len(t) - Len(s)) : SubSeq(t, k + 1, k + Len(s)) = s

\* t.endswith(suf)
EndsWith(t, suf) ==
    /\ Len(suf) <= Len(t)
    /\ SubSeq(t, Len(t) - Len(suf) + 1, Len(t)) = suf

\* s.replace(from, to) for single characters
ReplaceChar(s, from, to) == [k \in 1..Len(s) |-> IF s[k] = from THEN to ELSE s[k]]

\* the smallest and the largest element of a non-empty set of integers
Min(S) == CHOOSE x \in S : \A y \in S : x <= y
Max(S) == CHOOSE x \in S : \A y \in S : x >= y

\* str.strip(): from the first to the last non-whitespace character
Strip(s) ==
    LET solid == {k \in 1..Len(s) : ~IsSpace(s[k])}
    IN  IF solid = {} THEN <<>> ELSE SubSeq(s, Min(solid), Max(solid))

\* str.split() with no argument: the maximal runs of non-whitespace, in order
Split(s) ==
    LET solid(k) == k \in 1..Len(s) /\ ~IsSpace(s[k])
        starts == {k \in 1..Len(s) : solid(k) /\ ~solid(k - 1)}
        EndOf(k) == Min({e \in k..Len(s) : solid(e) /\ ~solid(e + 1)})
        Nth(n) == CHOOSE k \in starts : Cardinality({j \in starts : j < k}) = n - 1
    IN  [n \in 1..Cardinality(starts) |-> SubSeq(s, Nth(n), EndOf(Nth(n)))]

\* s.split('/')[-1], which is also os.path.basename(s) on POSIX: what follows
\* the last '/'
Basename(s) ==
    LET slashes == {k \in 1..Len(s) : s[k] = "/"}
    IN  IF slashes = {} THEN s ELSE SubSeq(s, Max(slashes) + 1, Len(s))

\* the concatenation of a sequence of sequences (repeated list.extend)
RECURSIVE Concat(_)
Concat(ss) == IF ss = <<>> THEN <<>> ELSE Head(ss) \o Concat(Tail(ss))

\* the literal '.epub'
Epub == <<".", "e", "p", "u", "b">>

\* Python's None, as returned by a cancelled dialog
None == <<"<None>">>

(***************************************************************************)
(* Keyword derivation (the list comprehension of search_repo_for_epub).    *)
(***************************************************************************)
NonEmpty(k) == k # <<>>

\* a variant that splits on the ASCII comma and on whitespace only
keywords_ascii_comma(book_name) ==
    LET pieces == Split(ReplaceChar(book_name, ",", " "))
        stripped == [k \in 1..Len(pieces) |-> Strip(pieces[k])]
    IN  SelectSeq(stripped, NonEmpty)

keywords(book_name) ==
    LET pieces == Split(ReplaceChar(ReplaceChar(book_name, "U+FF0C", " "), ",", " "))
        stripped == [k \in 1..Len(pieces) |-> Strip(pieces[k])]
    IN  SelectSeq(stripped, NonEmpty)

(***************************************************************************)
(* The tree matcher, search_repo_for_epub.                                 *)
(*                                                                         *)
(* A response of the tree endpoint is [status, tree]: status "error" is    *)
(* any failure of urlopen / read / decode / json.loads (all raise inside   *)
(* the try block), "ok" a decoded document whose 'tree' list is `tree`.    *)
(* A tree entry is [kind, path]; kind "malformed" is a list element that   *)
(* is not a JSON object, on which item.get raises.                         *)
(***************************************************************************)
\* the condition of the `if` inside the keyword loop
keyword_matches(keyword, path) ==
    LET filename == Basename(path)
        path_lower == Lower(path)
        filename_lower == Lower(filename)
        kw_lower == Lower(keyword)
    IN  \/ IsSubstr(keyword, path)
        \/ IsSubstr(keyword, filename)
        \/ IsSubstr(kw_lower, path_lower)
        \/ IsSubstr(kw_lower, filename_lower)

\* the dict appended to results
Candidate(path, repo_name) ==
    [name |-> Basename(path), path |-> path, repository |-> [full_name |-> repo_name]]

\* a variant of the keyword loop without its `break`
RECURSIVE keyword_loop_nobreak(_, _, _)
keyword_loop_nobreak(kws, path, repo_name) ==
    IF kws = <<>> THEN <<>>
    ELSE IF keyword_matches(Head(kws), path)
         THEN <<Candidate(path, repo_name)>> \o keyword_loop_nobreak(Tail(kws), path, repo_name)
         ELSE keyword_loop_nobreak(Tail(kws), path, repo_name)

\* `for keyword in keywords: if ...: results.append(...); break`:
\* what one .epub entry appends to results
RECURSIVE keyword_loop(_, _, _)
keyword_loop(kws, path, repo_name) ==
    IF kws = <<>> THEN <<>>
    ELSE IF keyword_matches(Head(kws), path)
         THEN <<Candidate(path, repo_name)>>
         ELSE keyword_loop(Tail(kws), path, repo_name)

\* `for item in tree`: [raised, results] after the remaining entries
RECURSIVE tree_loop(_, _, _, _)
tree_loop(tree, kws, repo_name, results) ==
    IF tree = <<>> THEN [raised |-> FALSE, results |-> results]
    ELSE IF Head(tree).kind = "malformed"
         THEN [raised |-> TRUE, results |-> results]
         ELSE IF EndsWith(Head(tree).path, Epub)
              THEN tree_loop(Tail(tree), kws, repo_name,
                             results \o keyword_loop(kws, Head(tree).path, repo_name))
              ELSE tree_loop(Tail(tree), kws, repo_name, results)

\* a variant whose except branch returns the matches collected so far
search_repo_for_epub_partial(repo_name, book_name, response) ==
    IF response.status # "ok" THEN <<>>
    ELSE tree_loop(response.tree, keywords(book_name), repo_name, <<>>).results

\* the value search_repo_for_epub returns for a given response
search_repo_for_epub(repo_name, book_name, response) ==
    IF response.status # "ok" THEN <<>>
    ELSE LET r == tree_loop(response.tree, keywords(book_name), repo_name, <<>>)
         IN  IF r.raised THEN <<>> ELSE r.results

\* the keyword list after a call: line 307 runs once the response is decoded,
\* before the loop over the tree
keywords_after(before, book_name, response) ==
    IF response.status = "ok" THEN keywords(book_name) ELSE before

(***************************************************************************)
(* Inputs of the model: the known-repository list, what the user can type, *)
(* and what the remote endpoints can answer.                               *)
(***************************************************************************)
Digits == <<"1", "2", "3", "4", "5", "6", "7", "8", "9">>

\* the static list of repositories.  The source lists 15 "owner/name" strings
\* with distinct names; the model keeps NumRepos of them, "o/r1", "o/r2", ...
KNOWN_EBOOK_REPOS == [k \in 1..NumRepos |-> <<"o", "/", "r", Digits[k]>>]

Entry(path) == [kind |-> "blob", path |-> path]
Malformed == [kind |-> "malformed", path |-> <<>>]

\* eleven matching books "a.epub", "aa.epub", ...: two such trees pass the cap
BigTree == [k \in 1..11 |-> Entry(Rep("a", k) \o Epub)]

\* nine matching books "b/a.epub", "b/aa.epub", ...: with BigTree, exactly the cap
NineTree == [k \in 1..9 |-> Entry(<<"b", "/">> \o Rep("a", k) \o Epub)]

\* two books whose names agree on their first 57 characters
LongName(c) == Rep("a", 58) \o <<c>> \o Epub
LongTree == <<Entry(<<"l", "/">> \o LongName("1")), Entry(<<"l", "/">> \o LongName("2"))>>

\* the same file name in two directories, a file name that starts with a
\* blank, and entries that are no .epub
TwinTree ==
    << Entry(<<"b", "/", "A">> \o Epub),
       Entry(<<"a", ".", "t", "x", "t">>),
       Entry(<<"c", "/", "A">> \o Epub),
       Entry(<<"a", ".", "E", "P", "U", "B">>),
       Entry(<<"c", "/", " ", "a">> \o Epub) >>

\* a matching book followed by an element that is no JSON object
BrokenTree == <<Entry(<<"a">> \o Epub), Malformed>>

FailedResponse == [status |-> "error", tree |-> <<>>]

\* what the tree endpoint can answer for a known repository
TreeResponses ==
    {FailedResponse} \cup
    {[status |-> "ok", tree |-> t] : t \in {<<>>, BigTree, NineTree, LongTree, TwinTree, BrokenTree}}

\* what the user can type into the title dialog
TypedTitles ==
    { <<>>, <<" ">>, <<",">>, <<"U+FF0C", " ">>,
      <<"a">>, <<" ", "A", ",", "z">>, <<"z">> }

\* an item of the code-search endpoint
CodeItem(owner, path) == Candidate(path, <<owner, "/", "r", "1">>)

\* what `gh api search/code` can answer: status "error" is a non-zero return
\* code, a timeout, a missing gh binary or undecodable output, with whatever
\* item list the output may hold
CodeResponses ==
    { [status |-> "error", items |-> <<>>],
      [status |-> "error", items |-> <<CodeItem("p", <<"z">> \o Epub)>>],
      [status |-> "ok", items |-> <<>>],
      [status |-> "ok", items |-> <<CodeItem("p", <<"z">> \o Epub), CodeItem("q", <<"z">> \o Epub)>>] }

(***************************************************************************)
(* State.                                                                  *)
(***************************************************************************)
VARIABLES
    pc,           \* position of the program
    book_name,    \* main: the title returned by the input dialog
    i,            \* show_progress_window: number of loop iterations completed
    all_results,  \* show_progress_window: the accumulator
    events,       \* the calls of update_progress_html, in order
    net,          \* the remote calls of this search, in order, with their answers
    returned,     \* the values search_func returned, in order
    results,      \* main: the value search_github returned
    items,        \* main: the display labels
    choice,       \* the position the user clicked in the list dialog (0: cancel)
    selected,     \* main: the value show_list_dialog returned
    idx,          \* main: items.index(selected)
    exit_code,    \* the exit status, once the process has ended
    kws,          \* search_repo_for_epub: the keyword list of the last scan that built one
    filename,     \* main: sanitize_filename(item['name'])
    save_path,    \* main: the destination path
    dl,           \* what download_file returned: "none" before it has, "ok", "failed"
    dest,         \* the file at save_path: "absent", "old", "empty", "partial", "new"
    dest_before,  \* the file at save_path when download_file was called
    cancelled     \* the prompt the user cancelled: "none", "title", "list", "save"

\* the variables of the save and download steps of main
save_vars == <<filename, save_path, dl, dest, dest_before>>

\* the same with the record of a cancelled prompt
late_vars == <<filename, save_path, dl, dest, dest_before, cancelled>>

vars == <<pc, book_name, i, all_results, events, net, returned, results, items,
          choice, selected, idx, exit_code, kws, filename, save_path, dl, dest,
          dest_before, cancelled>>

\* the value of exit_code while the process runs
NoExit == 0 - 1

Init ==
    /\ pc = "main"
    /\ book_name = None
    /\ i = 0
    /\ all_results = <<>>
    /\ events = <<>>
    /\ net = <<>>
    /\ returned = <<>>
    /\ results = <<>>
    /\ items = <<>>
    /\ choice = 0
    /\ selected = None
    /\ idx = 0
    /\ exit_code = NoExit
    /\ kws = <<>>
    /\ filename = None
    /\ save_path = None
    /\ dl = "none"
    /\ dest = "absent"
    /\ dest_before = "absent"
    /\ cancelled = "none"

(***************************************************************************)
(* Dialogs.  run_applescript returns (stdout.strip(), returncode == 0).    *)
(***************************************************************************)
\* show_input_dialog: the text typed, stripped; None when cancelled
show_input_dialog(typed, ok) == IF ok THEN Strip(typed) ELSE None

\* show_list_dialog: the label clicked, stripped; None when cancelled ("" is
\* printed) or when the stripped label is empty
show_list_dialog(labels, pick) ==
    IF pick = 0 THEN None
    ELSE IF Strip(labels[pick]) = <<>> THEN None ELSE Strip(labels[pick])

\* `not value` for an optional string
Falsy(value) == value = None \/ value = <<>>

(***************************************************************************)
(* main: the title prompt.                                                 *)
(***************************************************************************)
\* `if not book_name: sys.exit(0)`
title_rejected(title) == Falsy(title)

\* main up to the call of search_github, and show_progress_window up to its loop
\* (the progress page is written and opened; `open` and `osascript` are taken
\* to be present, as on the platform the program is written for)
main_input ==
    /\ pc = "main"
    /\ \E typed \in TypedTitles, ok \in BOOLEAN :
         LET title == show_input_dialog(typed, ok) IN
         /\ book_name' = title
         /\ cancelled' = IF ok THEN "none" ELSE "title"
         /\ IF title_rejected(title)
            THEN /\ pc' = "exited"
                 /\ exit_code' = 0
            ELSE /\ pc' = IF Len(KNOWN_EBOOK_REPOS) = 0 THEN "sg_check" ELSE "spw_update"
                 /\ exit_code' = exit_code
    /\ i' = 0
    /\ all_results' = <<>>
    /\ UNCHANGED <<events, net, returned, results, items, choice, selected, idx, kws>>
    /\ UNCHANGED save_vars

(***************************************************************************)
(* show_progress_window: the loop over the repository list.                *)
(***************************************************************************)
\* a variant that reports the 0-based loop index
ProgressEvent_zero_based(k, repo_list, found) ==
    [ current |-> k,
      total |-> Len(repo_list),
      repo_name |-> Basename(repo_list[k + 1]),
      found_count |-> Len(found) ]

\* the arguments of update_progress_html in iteration i (0-based)
ProgressEvent(k, repo_list, found) ==
    [ current |-> k + 1,
      total |-> Len(repo_list),
      repo_name |-> Basename(repo_list[k + 1]),
      found_count |-> Len(found) ]

\* first statement of the loop body: update_progress_html(...)
spw_update_progress ==
    /\ pc = "spw_update"
    /\ events' = Append(events, ProgressEvent(i, KNOWN_EBOOK_REPOS, all_results))
    /\ pc' = "spw_search"
    /\ UNCHANGED <<book_name, i, all_results, net, returned, results, items,
                   choice, selected, idx, exit_code, kws>>
    /\ UNCHANGED late_vars

\* all_results.extend(results)
extend(acc, more) == acc \o more

\* a variant of the cap test that is off by one
cap_reached_above(acc) == Len(acc) > Cap

\* `if len(all_results) >= 20: break`
cap_reached(acc) == Len(acc) >= Cap

\* a variant of the loop that tries a repository again when its fetch failed
advance_unless_failed(k, response) == IF response.status = "error" THEN k ELSE k + 1

\* `for i, repo in enumerate(repo_list)`: the index of the next iteration,
\* whatever the scan of this one returned
advance(k, response) == k + 1

\* rest of the loop body: results = search_func(repo, book_name); extend; cap test;
\* then the next iteration or the end of the loop
spw_search ==
    /\ pc = "spw_search"
    /\ \E response \in TreeResponses :
         LET repo == KNOWN_EBOOK_REPOS[i + 1]
             found == search_repo_for_epub(repo, book_name, response)
             acc == extend(all_results, found)
         IN  /\ net' = Append(net, [call |-> "tree", target |-> repo, response |-> response])
             /\ returned' = Append(returned, found)
             /\ kws' = keywords_after(kws, book_name, response)
             /\ all_results' = acc
             /\ i' = advance(i, response)
             /\ pc' = IF cap_reached(acc) \/ i' = Len(KNOWN_EBOOK_REPOS)
                      THEN "sg_check" ELSE "spw_update"
    /\ UNCHANGED <<book_name, events, results, items, choice, selected, idx, exit_code>>
    /\ UNCHANGED late_vars

(***************************************************************************)
(* search_github: after show_progress_window has returned.                 *)
(***************************************************************************)
\* a variant that returns the known-repository results only once the cap is reached
known_scan_suffices_at_cap(acc) == Len(acc) >= Cap

\* `if all_results:`
known_scan_suffices(acc) == acc # <<>>

\* a variant that returns the accumulator uncut
truncate_nothing(acc) == acc

\* all_results[:20]
truncate(acc) == Take(acc, Cap)

\* `return all_results[:20]`
sg_return_known ==
    /\ pc = "sg_check"
    /\ known_scan_suffices(all_results)
    /\ results' = truncate(all_results)
    /\ pc' = "main_results"
    /\ UNCHANGED <<book_name, i, all_results, events, net, returned, items,
                   choice, selected, idx, exit_code, kws>>
    /\ UNCHANGED late_vars

\* a variant that returns the items of the output whatever the return code
code_search_result_unchecked(response) == response.items

\* the value returned after the gh call: its items when it succeeded with a
\* non-empty list, [] otherwise
code_search_result(response) ==
    IF response.status = "ok" /\ response.items # <<>> THEN response.items ELSE <<>>

\* a variant that starts the search over when the code search has failed
sg_code_search_restarting ==
    /\ pc = "sg_check"
    /\ ~known_scan_suffices(all_results)
    /\ \E response \in CodeResponses :
         IF response.status = "ok"
         THEN /\ net' = Append(net, [call |-> "code", target |-> book_name,
                                     response |-> response])
              /\ results' = code_search_result(response)
              /\ pc' = "main_results"
              /\ UNCHANGED <<i, all_results, events, returned, kws>>
         ELSE /\ net' = <<>>
              /\ results' = <<>>
              /\ pc' = "spw_update"
              /\ i' = 0
              /\ all_results' = <<>>
              /\ events' = <<>>
              /\ returned' = <<>>
              /\ kws' = <<>>
    /\ UNCHANGED <<book_name, items, choice, selected, idx, exit_code>>
    /\ UNCHANGED late_vars

\* the try block around `gh api search/code`, and the final `return []`
sg_code_search ==
    /\ pc = "sg_check"
    /\ ~known_scan_suffices(all_results)
    /\ \E response \in CodeResponses :
         /\ net' = Append(net, [call |-> "code", target |-> book_name, response |-> response])
         /\ results' = code_search_result(response)
    /\ pc' = "main_results"
    /\ UNCHANGED <<book_name, i, all_results, events, returned, items,
                   choice, selected, idx, exit_code, kws>>
    /\ UNCHANGED late_vars

(***************************************************************************)
(* main: after search_github has returned.                                 *)
(***************************************************************************)
\* `if not results:` ask whether to search again; main() again, or return
main_not_found ==
    /\ pc = "main_results"
    /\ results = <<>>
    /\ \E again \in BOOLEAN :
         IF again
         THEN /\ pc' = "main"
              /\ book_name' = None
              /\ i' = 0
              /\ all_results' = <<>>
              /\ events' = <<>>
              /\ net' = <<>>
              /\ returned' = <<>>
              /\ kws' = <<>>
              /\ exit_code' = exit_code
         ELSE /\ pc' = "exited"
              /\ exit_code' = 0
              /\ UNCHANGED <<book_name, i, all_results, events, net, returned, kws>>
    /\ UNCHANGED <<results, items, choice, selected, idx>>
    /\ UNCHANGED late_vars

\* the label of one result: "<name> (<repo short name>)", cut to 57 + "..."
display(item) ==
    LET repo == Basename(item.repository.full_name)
        label == item.name \o <<" ", "(">> \o repo \o <<")">>
    IN  IF Len(label) > MaxLabel
        THEN Take(label, KeepLabel) \o <<".", ".", ".">>
        ELSE label

\* the list `items` built from results
labels_of(res) == [k \in 1..Len(res) |-> display(res[k])]

\* build the labels, show the list dialog; `if not selected: sys.exit(0)`
main_select ==
    /\ pc = "main_results"
    /\ results # <<>>
    /\ items' = labels_of(results)
    /\ \E pick \in 0..Len(results) :
         /\ choice' = pick
         /\ cancelled' = IF pick = 0 THEN "list" ELSE "none"
         /\ selected' = show_list_dialog(items', pick)
         /\ IF Falsy(selected')
            THEN /\ pc' = "exited"
                 /\ exit_code' = 0
            ELSE /\ pc' = "main_resolve"
                 /\ exit_code' = exit_code
    /\ UNCHANGED <<book_name, i, all_results, events, net, returned, results, idx, kws>>
    /\ UNCHANGED save_vars

\* list.index: the position of the first element equal to x, 0 when there is none
\* (Python raises ValueError)
index_of(list, x) ==
    IF \E k \in 1..Len(list) : list[k] = x
    THEN CHOOSE k \in 1..Len(list) : list[k] = x /\ \A j \in 1..(k - 1) : list[j] # x
    ELSE 0

\* `idx = items.index(selected); item = results[idx]`
main_resolve ==
    /\ pc = "main_resolve"
    /\ idx' = index_of(items, selected)
    /\ IF idx' = 0
       THEN /\ pc' = "crashed"
            /\ exit_code' = 1
       ELSE /\ pc' = "resolved"
            /\ exit_code' = exit_code
    /\ UNCHANGED <<book_name, i, all_results, events, net, returned, results,
                   items, choice, selected, kws>>
    /\ UNCHANGED late_vars

(***************************************************************************)
(* main: the save dialog (lines 393-408).                                  *)
(***************************************************************************)
\* the characters of the class [<>:"/\\|?*]
UnsafeChars == {"<", ">", ":", "\"", "/", "\\", "|", "?", "*"}

IsSafeChar(c) == c \notin UnsafeChars

\* a variant that puts an underscore where it finds an unsafe character
sanitize_filename_underscore(name) ==
    [k \in 1..Len(name) |-> IF IsSafeChar(name[k]) THEN name[k] ELSE "_"]

\* re.sub(r'[<>:"/\\|?*]', '', name)
sanitize_filename(name) == SelectSeq(name, IsSafeChar)

\* os.path.expanduser("~/Downloads")
DownloadsDir == <<"/", "D">>

\* what the user can answer in the save dialog: the default name in the default
\* location, or a path of their own without an extension
SavePaths(default_name) ==
    { DownloadsDir \o <<"/">> \o default_name, <<"/", "t", "/", "x">> }

\* choose_save_location: the POSIX path chosen, stripped; None when cancelled
choose_save_location(path, ok) == IF ok THEN Strip(path) ELSE None

\* a variant that never takes the dialog for cancelled
save_cancelled_never(path) == FALSE

\* `if not save_path: sys.exit(0)`
save_cancelled(path) == Falsy(path)

\* a variant that leaves the path as chosen
ensure_extension_missing(path) == path

\* `if not save_path.endswith('.epub'): save_path += '.epub'`
ensure_extension(path) == IF ~EndsWith(path, Epub) THEN path \o Epub ELSE path

\* item = results[idx]; filename = sanitize_filename(item['name']); the save
\* dialog; exit when it is cancelled; the extension
main_save ==
    /\ pc = "resolved"
    /\ filename' = sanitize_filename(results[idx].name)
    /\ \E ok \in BOOLEAN, path \in SavePaths(filename') :
         LET chosen == choose_save_location(path, ok) IN
         /\ cancelled' = IF ok THEN "none" ELSE "save"
         /\ IF save_cancelled(chosen)
               THEN /\ save_path' = chosen
                    /\ pc' = "exited"
                    /\ exit_code' = 0
               ELSE /\ save_path' = ensure_extension(chosen)
                    /\ pc' = "main_download"
                    /\ exit_code' = exit_code
    /\ UNCHANGED <<book_name, i, all_results, events, net, returned, results,
                   items, choice, selected, idx, kws, dl, dest, dest_before>>

(***************************************************************************)
(* download_file (lines 331-348) and the end of main (lines 410-417).      *)
(*                                                                         *)
(* The outcomes of download_file: urlopen or read raises ("fetch_failed"), *)
(* open(filepath, 'wb') raises ("open_failed"), f.write raises after open  *)
(* has created or truncated the file ("write_failed"), or all the bytes    *)
(* are written ("written").                                                *)
(***************************************************************************)
DownloadOutcomes == {"fetch_failed", "open_failed", "write_failed", "written"}

\* the save paths where a file exists already (the save dialog lets the user
\* choose such a path)
ExistingFiles == { <<"/", "t", "/", "x">> \o Epub }

\* the file at a path when download_file is called
file_before(path) == IF path \in ExistingFiles THEN "old" ELSE "absent"

\* the file at the destination after download_file, given the file before
file_after(before, outcome) ==
    CASE outcome = "written" -> "new"
      [] outcome = "write_failed" -> "partial"
      [] OTHER -> before

\* the value download_file returns: True at the end of the try block, False from
\* the except branch
download_result(outcome) == IF outcome = "written" THEN "ok" ELSE "failed"

\* main() called again from main: a fresh frame, a fresh search and, for the
\* model, a fresh destination
Restart ==
    /\ pc' = "main"
    /\ book_name' = None
    /\ i' = 0
    /\ all_results' = <<>>
    /\ events' = <<>>
    /\ net' = <<>>
    /\ returned' = <<>>
    /\ results' = <<>>
    /\ items' = <<>>
    /\ choice' = 0
    /\ selected' = None
    /\ idx' = 0
    /\ exit_code' = exit_code
    /\ kws' = <<>>
    /\ filename' = None
    /\ save_path' = None
    /\ dl' = "none"
    /\ dest' = "absent"
    /\ dest_before' = "absent"
    /\ cancelled' = "none"

\* main returns after download_file(download_url, save_path) with the given
\* outcome; the log keeps the request only, download_file reducing every answer
\* to True or False
Finish(outcome) ==
    /\ dest_before' = file_before(save_path)
    /\ dest' = file_after(file_before(save_path), outcome)
    /\ dl' = download_result(outcome)
    /\ net' = Append(net, [call |-> "download",
                           target |-> results[idx].path,
                           response |-> [status |-> "unread"]])
    /\ pc' = "exited"
    /\ exit_code' = 0
    /\ UNCHANGED <<book_name, i, all_results, events, returned, results, items,
                   choice, selected, idx, kws, filename, save_path, cancelled>>

\* `if download_file(...)`: when it returned True, ask whether to open the file,
\* ask whether to go on, main() again or return; when it returned False, main
\* returns at once
main_download ==
    /\ pc = "main_download"
    /\ \E outcome \in DownloadOutcomes :
         IF download_result(outcome) = "ok"
         THEN \E open_it \in BOOLEAN, again \in BOOLEAN :
                IF again THEN Restart ELSE Finish(outcome)
         ELSE Finish(outcome)

Next ==
    \/ main_input
    \/ spw_update_progress
    \/ spw_search
    \/ sg_return_known
    \/ sg_code_search
    \/ main_not_found
    \/ main_select
    \/ main_resolve
    \/ main_save
    \/ main_download

Spec == Init /\ [][Next]_vars

\* The steps of search_github are taken by the one thread of the program, and
\* each of its calls is given a timeout (urlopen 15 s, gh 30 s): a step of the
\* search that can be taken is taken.
SpecLive ==
    /\ Spec
    /\ WF_vars(spw_update_progress)
    /\ WF_vars(spw_search)
    /\ WF_vars(sg_return_known)
    /\ WF_vars(sg_code_search)

(***************************************************************************)
(* The tree matcher on its own: one call of search_repo_for_epub for a     *)
(* title and a tree drawn from bounded sets.                               *)
(***************************************************************************)
ScanPaths ==
    { <<"a">> \o Epub,
      <<"d", "/", "A", "b">> \o Epub,
      <<"a", ".", "t", "x", "t">>,
      <<"b", ".", "E", "P", "U", "B">>,
      <<"U+4E66">> \o Epub }

ScanEntries == {Entry(p) : p \in ScanPaths} \cup {Malformed}

\* the sequences over S of length at most n
SeqsUpTo(S, n) == UNION {[1..m -> S] : m \in 0..n}

ScanResponses ==
    {FailedResponse} \cup {[status |-> "ok", tree |-> t] : t \in SeqsUpTo(ScanEntries, MaxTree)}

ScanTitles ==
    { <<"a">>, <<"A", ",", "b">>, <<"B", " ", "d", "/">>, <<"z">>, <<",">>, <<"U+4E66", "U+FF0C", "z">> }

InitScan ==
    /\ pc = "scan_call"
    /\ book_name \in ScanTitles
    /\ i = 0
    /\ all_results = <<>>
    /\ events = <<>>
    /\ net = <<>>
    /\ returned = <<>>
    /\ results = <<>>
    /\ items = <<>>
    /\ choice = 0
    /\ selected = None
    /\ idx = 0
    /\ exit_code = NoExit
    /\ kws = <<>>
    /\ filename = None
    /\ save_path = None
    /\ dl = "none"
    /\ dest = "absent"
    /\ dest_before = "absent"
    /\ cancelled = "none"

\* search_repo_for_epub(repo, book_name) for the first known repository
scan_call ==
    /\ pc = "scan_call"
    /\ \E response \in ScanResponses :
         LET repo == KNOWN_EBOOK_REPOS[1] IN
         /\ net' = <<[call |-> "tree", target |-> repo, response |-> response]>>
         /\ returned' = <<search_repo_for_epub(repo, book_name, response)>>
         /\ kws' = keywords_after(kws, book_name, response)
    /\ pc' = "scan_done"
    /\ UNCHANGED <<book_name, i, all_results, events, results, items, choice,
                   selected, idx, exit_code>>
    /\ UNCHANGED late_vars

NextScan == scan_call

SpecScan == InitScan /\ [][NextScan]_vars

(***************************************************************************)
(* The keyword derivation on its own: one call of search_repo_for_epub for *)
(* every short title over two letters, the two commas and the blank, and   *)
(* for a few longer titles.                                                *)
(***************************************************************************)
MaxTitle == 3

TitleChars == {"a", "b", ",", "U+FF0C", " "}

TokTitles ==
    SeqsUpTo(TitleChars, MaxTitle)
        \cup { <<"a", "b", " ", "b", ",", "U+4E66">>,
               <<"a", "b", " ", "b", "U+FF0C", "U+4E66">>,
               <<" ", ",", "a", "U+FF0C", " ", ",", "b", "a", " ">> }

InitTok ==
    /\ pc = "scan_call"
    /\ book_name \in TokTitles
    /\ i = 0
    /\ all_results = <<>>
    /\ events = <<>>
    /\ net = <<>>
    /\ returned = <<>>
    /\ results = <<>>
    /\ items = <<>>
    /\ choice = 0
    /\ selected = None
    /\ idx = 0
    /\ exit_code = NoExit
    /\ kws = <<>>
    /\ filename = None
    /\ save_path = None
    /\ dl = "none"
    /\ dest = "absent"
    /\ dest_before = "absent"
    /\ cancelled = "none"

NextTok == scan_call

SpecTok == InitTok /\ [][NextTok]_vars

(***************************************************************************)
(* The save step on its own: main from `item = results[idx]` (line 391) to *)
(* the extension test (line 408), for one selected item whose name is any  *)
(* short string over the characters sanitize_filename removes and two that *)
(* it keeps, or one of the longer names below.                             *)
(***************************************************************************)
MaxName == 2

NameChars == UnsafeChars \cup {"a", " "}

ReportName ==
    <<"R", "e", "p", "o", "r", "t", ":", " ", "D", "r", "a", "f", "t", "/",
      "F", "i", "n", "a", "l", "?">> \o Epub

MyBook == <<"M", "y", "B", "o", "o", "k">>

SaveNames ==
    SeqsUpTo(NameChars, MaxName)
        \cup {n \o Epub : n \in SeqsUpTo(NameChars, 1)}
        \cup {ReportName, MyBook}

\* an item as `gh api search/code` reports it, with the given file name
NamedItem(name) ==
    [name |-> name, path |-> name, repository |-> [full_name |-> <<"p", "/", "r", "1">>]]

InitSave ==
    /\ pc = "resolved"
    /\ book_name = <<"a">>
    /\ i = 0
    /\ all_results = <<>>
    /\ events = <<>>
    /\ net = <<>>
    /\ returned = <<>>
    /\ \E name \in SaveNames : results = <<NamedItem(name)>>
    /\ items = labels_of(results)
    /\ choice = 1
    /\ selected = items[1]
    /\ idx = 1
    /\ exit_code = NoExit
    /\ kws = <<>>
    /\ filename = None
    /\ save_path = None
    /\ dl = "none"
    /\ dest = "absent"
    /\ dest_before = "absent"
    /\ cancelled = "none"

NextSave == main_save

SpecSave == InitSave /\ [][NextSave]_vars

(***************************************************************************)
(* Vocabulary of the properties.                                           *)
(***************************************************************************)
Range(s) == {s[k] : k \in 1..Len(s)}

IsPrefix(s, t) == Len(s) <= Len(t) /\ SubSeq(t, 1, Len(s)) = s

IsTreeCall(c) == c.call = "tree"

\* the tree fetches of the current search, in order
TreeCalls == SelectSeq(net, IsTreeCall)

\* the positions of the calls of one kind in the log
CallsOf(kind) == {k \in 1..Len(net) : net[k].call = kind}

\* a scan that ends in the except branch: the fetch failed, or an element of
\* the tree is no JSON object
ScanFailed(response) ==
    \/ response.status = "error"
    \/ \E k \in 1..Len(response.tree) : response.tree[k].kind = "malformed"

\* the known-repository loop of the current search has ended
ScanOver == pc \in {"sg_check", "main_results", "main_resolve", "resolved", "crashed"}

\* the accumulator as it was after the first k scans
AccAfter(k) == Concat(SubSeq(returned, 1, k))

(***************************************************************************)
(* C1: if the known-repository scan ends with at least one candidate, no   *)
(* code search and no repository-name search is made in that run, and the  *)
(* result consists only of candidates of the known-repository scan.        *)
(***************************************************************************)
C1_ShortCircuit ==
    (pc \notin {"spw_update", "spw_search"} /\ all_results # <<>>) =>
        /\ CallsOf("code") = {}
        /\ CallsOf("repos") = {}
        /\ ScanOver => /\ pc = "sg_check" \/ results # <<>>
                       /\ Range(results) \subseteq Range(Concat(returned))

C1_Witness ==
    /\ pc = "main_results"
    /\ Len(all_results) \in 1..(Cap - 1)
    /\ results = all_results
    /\ Len(TreeCalls) = NumRepos

(***************************************************************************)
(* C2, as claimed: the result always has at most 20 elements and is a      *)
(* prefix of the concatenation, in list order, of the match lists of the   *)
(* repositories that were scanned.                                         *)
(***************************************************************************)
C2_Original ==
    pc = "main_results" =>
        /\ Len(results) <= Cap
        /\ IsPrefix(results, Concat(returned))

(***************************************************************************)
(* C2, amended: when the known-repository scan found a candidate, the      *)
(* result has at most 20 elements and is a prefix of the concatenation, in *)
(* list order, of the match lists of the scanned repositories (all of it   *)
(* when it has at most 20 elements); when the scan found none, the result  *)
(* is the item list the code search reported, or empty.                    *)
(***************************************************************************)
C2_CapAndOrder ==
    pc = "main_results" =>
        IF Concat(returned) # <<>>
        THEN /\ Len(results) <= Cap
             /\ IsPrefix(results, Concat(returned))
             /\ Len(results) = Cap \/ results = Concat(returned)
             /\ \A k \in 1..Len(net) : IsTreeCall(net[k]) /\ net[k].target = KNOWN_EBOOK_REPOS[k]
        ELSE \/ results = <<>>
             \/ \E k \in CallsOf("code") : results = net[k].response.items

C2_Witness ==
    /\ pc = "main_results"
    /\ Len(Concat(returned)) > Cap
    /\ Len(results) = Cap
    /\ Len(TreeCalls) < NumRepos

(***************************************************************************)
(* C3: if the scan of every known repository fails, every repository of    *)
(* the list is still attempted, in order, the accumulator is empty when    *)
(* the scan ends, and the code search is then made (nothing is raised: the *)
(* search goes on to its next statement).                                  *)
(***************************************************************************)
C3_AllFail ==
    (ScanOver /\ \A k \in 1..Len(TreeCalls) : ScanFailed(TreeCalls[k].response)) =>
        /\ Len(TreeCalls) = Len(KNOWN_EBOOK_REPOS)
        /\ \A k \in 1..Len(TreeCalls) : TreeCalls[k].target = KNOWN_EBOOK_REPOS[k]
        /\ all_results = <<>>
        /\ pc # "sg_check" => CallsOf("code") = {Len(KNOWN_EBOOK_REPOS) + 1}

C3_Witness ==
    /\ pc = "main_results"
    /\ Len(TreeCalls) = NumRepos
    /\ \A k \in 1..NumRepos : ScanFailed(TreeCalls[k].response)
    /\ \E k \in 1..NumRepos : TreeCalls[k].response.status = "ok"
    /\ \E k \in 1..NumRepos : TreeCalls[k].response.status = "error"
    /\ CallsOf("code") # {}

C5_EmptyOnlyAfterAllStages ==
    (pc = "main_results" /\ results = <<>>) =>
        /\ TreeCalls # <<>>
        /\ CallsOf("code") # {}
        /\ CallsOf("repos") # {}

(***************************************************************************)
(* C6, as claimed: a title that yields no keyword is rejected before any   *)
(* network call.                                                           *)
(***************************************************************************)
C6_NoTokenNoNetwork ==
    (book_name # None /\ keywords(book_name) = <<>>) => net = <<>>

(***************************************************************************)
(* C7: the known repositories are scanned in list order, each at most      *)
(* once; no repository is scanned after the accumulator has reached 20;    *)
(* and if it stays below 20 every repository is scanned exactly once.      *)
(***************************************************************************)
C7_ScanOrderAndStop ==
    /\ Len(TreeCalls) <= Len(KNOWN_EBOOK_REPOS)
    /\ Len(returned) = Len(TreeCalls)
    /\ \A k \in 1..Len(TreeCalls) : TreeCalls[k].target = KNOWN_EBOOK_REPOS[k]
    /\ \A k \in 1..(Len(TreeCalls) - 1) : Len(AccAfter(k)) < Cap
    /\ pc = "spw_search" => Len(AccAfter(Len(TreeCalls))) < Cap
    /\ (ScanOver /\ Len(all_results) < Cap) => Len(TreeCalls) = Len(KNOWN_EBOOK_REPOS)

\* the accumulator holds exactly 20 candidates and a repository is left unscanned
C7_Witness ==
    /\ pc = "sg_check"
    /\ Len(all_results) = Cap
    /\ Len(TreeCalls) < NumRepos

(***************************************************************************)
(* C8: one progress event per scanned repository, emitted before the       *)
(* repository is scanned; the k-th event carries index k, the length of    *)
(* the list, the short name of the k-th repository and the size of the     *)
(* accumulator before the k-th scan; indices increase strictly and found   *)
(* counts never decrease; when fewer than 20 candidates are found there    *)
(* are as many events as repositories.                                     *)
(***************************************************************************)
C8_ProgressEvents ==
    /\ Len(events) = Len(TreeCalls) + (IF pc = "spw_search" THEN 1 ELSE 0)
    /\ \A k \in 1..Len(events) :
         /\ events[k].current = k
         /\ events[k].total = Len(KNOWN_EBOOK_REPOS)
         /\ events[k].repo_name = SubSeq(KNOWN_EBOOK_REPOS[k], 3, Len(KNOWN_EBOOK_REPOS[k]))
         /\ events[k].found_count = Len(AccAfter(k - 1))
    /\ \A k \in 1..(Len(events) - 1) :
         /\ events[k].current < events[k + 1].current
         /\ events[k].found_count <= events[k + 1].found_count
    /\ (ScanOver /\ Len(all_results) < Cap) => Len(events) = Len(KNOWN_EBOOK_REPOS)

\* the event of the last repository is out, carrying a positive found count,
\* and the repository itself is not scanned yet
C8_Witness ==
    /\ pc = "spw_search"
    /\ Len(events) = NumRepos
    /\ Len(TreeCalls) = NumRepos - 1
    /\ events[NumRepos].found_count > events[1].found_count

\* token t is a substring of the path or of the file name, as written or after
\* lowercasing both
TokenIn(t, path) ==
    LET name == Basename(path)
    IN  \/ IsSubstr(t, path) \/ IsSubstr(t, name)
        \/ IsSubstr(Lower(t), Lower(path)) \/ IsSubstr(Lower(t), Lower(name))

\* the entries a scan for the current title has to return
Wanted(entry) ==
    /\ EndsWith(entry.path, Epub)
    /\ \E t \in Range(keywords(book_name)) : TokenIn(t, entry.path)

(***************************************************************************)
(* C9: a successful scan returns, in tree order, exactly one candidate for *)
(* each entry whose path ends with ".epub" and has some token as a         *)
(* substring of the path or the file name, as written or after lowercasing *)
(* both; it returns nothing for the other entries, and nothing at all for  *)
(* a tree without ".epub" paths.                                           *)
(***************************************************************************)
C9_ScanExact ==
    (pc = "scan_done" /\ ~ScanFailed(net[1].response)) =>
        LET kept == SelectSeq(net[1].response.tree, Wanted)
            got == returned[1]
        IN  /\ Len(got) = Len(kept)
            /\ \A k \in 1..Len(got) :
                 /\ got[k].path = kept[k].path
                 /\ got[k].name = Basename(kept[k].path)
                 /\ got[k].repository.full_name = net[1].target
            /\ (\A k \in 1..Len(net[1].response.tree) :
                  ~EndsWith(net[1].response.tree[k].path, Epub)) => got = <<>>

\* an entry matched by two tokens is returned once, next to an entry that is
\* not returned
C9_Witness ==
    /\ pc = "scan_done"
    /\ ~ScanFailed(net[1].response)
    /\ Len(net[1].response.tree) = 2
    /\ Len(returned[1]) = 1
    /\ Cardinality({t \in Range(keywords(book_name)) : TokenIn(t, returned[1][1].path)}) = 2

(***************************************************************************)
(* C10, as claimed: the labels are those of the results, in result order,  *)
(* and selecting the label shown at position i resolves to the candidate   *)
(* at position i.                                                          *)
(***************************************************************************)
C10_SelectionResolves ==
    /\ pc \in {"main_resolve", "resolved"} =>
         /\ Len(items) = Len(results)
         /\ selected = items[choice]
    /\ pc = "resolved" => idx = choice

(***************************************************************************)
(* C11: when the user cancels the title prompt, the result list or the     *)
(* save dialog, the run ends with exit code 0: no step follows, nothing    *)
(* was downloaded or written, and the only network calls are the searches  *)
(* made before the cancelled prompt (none when the title prompt was        *)
(* cancelled).                                                             *)
(***************************************************************************)
C11_CancelEndsRun ==
    cancelled # "none" =>
        /\ pc = "exited"
        /\ exit_code = 0
        /\ ~ENABLED Next
        /\ dl = "none"
        /\ dest = "absent"
        /\ CallsOf("download") = {}
        /\ cancelled = "title" => net = <<>>
        /\ cancelled = "list" => selected = None /\ filename = None
        /\ cancelled = "save" => save_path = None

C11_Witness ==
    /\ cancelled = "save"
    /\ pc = "exited"
    /\ filename # None
    /\ net # <<>>

(***************************************************************************)
(* C12: a failed download does not end the session: after download_file    *)
(* returned False the run has neither exited nor crashed, so that the      *)
(* user can go on to another search, and the search result is still the    *)
(* one that was displayed.                                                 *)
(***************************************************************************)
C12_FailedDownloadKeepsSession ==
    dl = "failed" =>
        /\ pc \notin {"exited", "crashed"}
        /\ items = labels_of(results)

\* the positions of name that hold a character sanitize_filename keeps
KeptPositions(name) == {k \in 1..Len(name) : name[k] \notin UnsafeChars}

\* out is name without its unsafe characters: the j-th character of out is
\* the j-th kept character of name
DeletesUnsafe(name, out) ==
    /\ Len(out) = Cardinality(KeptPositions(name))
    /\ \A k \in KeptPositions(name) :
         out[Cardinality({m \in KeptPositions(name) : m <= k})] = name[k]

ReportAsSpecified ==
    <<"R", "e", "p", "o", "r", "t", " ", "D", "r", "a", "f", "t", " ",
      "F", "i", "n", "a", "l">> \o Epub

ReportAsComputed ==
    <<"R", "e", "p", "o", "r", "t", " ", "D", "r", "a", "f", "t",
      "F", "i", "n", "a", "l">> \o Epub

(***************************************************************************)
(* C13, as stated: sanitize(name) is name with every < > : " / \ | ? *     *)
(* deleted and every other character kept in order, and                    *)
(* "Report: Draft/Final?.epub" becomes "Report Draft Final.epub".          *)
(***************************************************************************)
C13_Original ==
    filename # None =>
        /\ DeletesUnsafe(results[idx].name, filename)
        /\ results[idx].name = ReportName => filename = ReportAsSpecified

(***************************************************************************)
(* C13, amended: sanitize(name) is name with every < > : " / \ | ? *       *)
(* deleted and every other character kept in order; for                    *)
(* "Report: Draft/Final?.epub" that is "Report DraftFinal.epub", the one   *)
(* blank of the name kept and nothing put in place of ':', '/' and '?'.    *)
(***************************************************************************)
C13_SanitizeDeletes ==
    filename # None =>
        /\ DeletesUnsafe(results[idx].name, filename)
        /\ results[idx].name = ReportName => filename = ReportAsComputed

C13_Witness ==
    /\ results # <<>>
    /\ results[1].name = ReportName
    /\ filename = ReportAsComputed

(***************************************************************************)
(* C14, as stated: sanitize(name) always ends with ".epub".                *)
(***************************************************************************)
C14_Original ==
    filename # None => EndsWith(filename, Epub)

(***************************************************************************)
(* C14, amended: sanitize(name) appends nothing (sanitize("MyBook") is     *)
(* "MyBook") and keeps an ".epub" the name ends with; it is main that      *)
(* appends ".epub" to the chosen save path when the path does not end with *)
(* it, so that the path handed to download_file always ends with ".epub".  *)
(***************************************************************************)
C14_ExtensionOnSavePath ==
    /\ filename # None =>
         /\ Len(filename) <= Len(results[idx].name)
         /\ EndsWith(results[idx].name, Epub) => EndsWith(filename, Epub)
         /\ results[idx].name = MyBook => filename = MyBook
    /\ pc = "main_download" =>
         /\ EndsWith(save_path, Epub)
         /\ \E path \in SavePaths(filename) :
              save_path = IF EndsWith(Strip(path), Epub)
                          THEN Strip(path) ELSE Strip(path) \o Epub

C14_Witness ==
    /\ pc = "main_download"
    /\ results[idx].name = MyBook
    /\ filename = MyBook
    /\ save_path = DownloadsDir \o <<"/">> \o MyBook \o Epub

\* the characters that separate the tokens of a title
IsSeparator(c) == IsSpace(c) \/ c = "," \/ c = "U+FF0C"

\* position k of title holds a character of a token
InToken(title, k) == k \in 1..Len(title) /\ ~IsSeparator(title[k])

\* the positions where a maximal run of token characters starts, and ends
RunStarts(title) == {k \in 1..Len(title) : InToken(title, k) /\ ~InToken(title, k - 1)}
RunEnds(title) == {k \in 1..Len(title) : InToken(title, k) /\ ~InToken(title, k + 1)}

\* toks lists the maximal runs of token characters of title, from left to right
IsRunList(title, toks) ==
    /\ Len(toks) = Cardinality(RunStarts(title))
    /\ \A s \in RunStarts(title) :
         LET n == Cardinality({r \in RunStarts(title) : r <= s})
             e == Min({k \in RunEnds(title) : k >= s})
         IN  toks[n] = SubSeq(title, s, e)

(***************************************************************************)
(* C15: the keyword list derived from a title is the list of its maximal   *)
(* runs of characters that are neither whitespace nor a comma of either    *)
(* style, from left to right; no keyword is empty or holds a separator,    *)
(* and the list is the same when the ASCII commas of the title are written *)
(* as full-width commas or the full-width ones as ASCII commas.            *)
(***************************************************************************)
C15_Tokens ==
    (pc = "scan_done" /\ net[1].response.status = "ok") =>
        /\ IsRunList(book_name, kws)
        /\ \A n \in 1..Len(kws) :
             /\ kws[n] # <<>>
             /\ \A k \in 1..Len(kws[n]) : ~IsSeparator(kws[n][k])
        /\ keywords(ReplaceChar(book_name, ",", "U+FF0C")) = kws
        /\ keywords(ReplaceChar(book_name, "U+FF0C", ",")) = kws

C15_Witness ==
    /\ pc = "scan_done"
    /\ net[1].response.status = "ok"
    /\ book_name = <<"a", "b", " ", "b", "U+FF0C", "U+4E66">>
    /\ kws = << <<"a", "b">>, <<"b">>, <<"U+4E66">> >>

\* the answer of the code search of the current run
CodeAnswer == net[Min(CallsOf("code"))].response

(***************************************************************************)
(* C16: once the code search has been made, search has returned: with an   *)
(* empty result when the call failed, whatever its output, and with        *)
(* exactly the items of the answer, in the order of the answer, when it    *)
(* succeeded with a non-empty list.                                        *)
(***************************************************************************)
C16_CodeSearchResult ==
    CallsOf("code") # {} =>
        /\ pc \notin {"spw_update", "spw_search", "sg_check"}
        /\ pc = "main_results" => exit_code = NoExit
        /\ CodeAnswer.status # "ok" => results = <<>>
        /\ (CodeAnswer.status = "ok" /\ CodeAnswer.items # <<>>) => results = CodeAnswer.items

C16_Witness ==
    /\ pc = "main_results"
    /\ CallsOf("code") # {}
    /\ CodeAnswer.status = "ok"
    /\ Len(CodeAnswer.items) = 2
    /\ results = CodeAnswer.items

(***************************************************************************)
(* C17: download_file is all-or-nothing for the destination: when it has   *)
(* returned, the file at the save path either holds the fetched bytes, and *)
(* the download succeeded, or is the file that was there before the call   *)
(* (none, if there was none), and the download failed.                     *)
(***************************************************************************)
C17_AllOrNothing ==
    dl # "none" =>
        \/ dl = "ok" /\ dest = "new"
        \/ dl = "failed" /\ dest = dest_before

(***************************************************************************)
(* C18: within one search no tree is fetched twice, the code search is     *)
(* made at most once, no tree is fetched after the code search, and the    *)
(* search is over once the code search has been made: a call is never      *)
(* repeated, whether it succeeded or failed, and no stage is entered again.*)
(***************************************************************************)
C18_ForwardOnly ==
    /\ \A j, k \in CallsOf("tree") : j < k => net[j].target # net[k].target
    /\ Len(TreeCalls) <= Len(KNOWN_EBOOK_REPOS)
    /\ Cardinality(CallsOf("code")) <= 1
    /\ \A c \in CallsOf("code") : \A t \in CallsOf("tree") : t < c
    /\ \A c \in CallsOf("code") : c = Len(TreeCalls) + 1
    /\ pc \in {"spw_update", "spw_search"} => (CallsOf("code") = {} /\ Len(net) = i)

C18_Witness ==
    /\ pc = "main_results"
    /\ Len(TreeCalls) = Len(KNOWN_EBOOK_REPOS)
    /\ \E t \in CallsOf("tree") : net[t].response.status = "error"
    /\ \E c \in CallsOf("code") : net[c].response.status = "error"

\* search_github has been called and has not returned
InSearch == pc \in {"spw_update", "spw_search", "sg_check"}

(***************************************************************************)
(* C19: every call of search_github returns: from any state inside the     *)
(* search, whatever the calls made so far answered, the state where main   *)
(* holds the result is reached.                                            *)
(***************************************************************************)
C19_SearchReturns == InSearch ~> (pc = "main_results")

C19_Witness ==
    /\ pc = "main_results"
    /\ results = <<>>
    /\ \A t \in CallsOf("tree") : net[t].response.status = "error"
    /\ \E c \in CallsOf("code") : net[c].response.status = "error"
    /\ Len(net) = Len(KNOWN_EBOOK_REPOS) + 1

\* the candidates of the entries of a tree that the current title matches
MatchList(tree, repo_name) ==
    LET full == SelectSeq(tree, Wanted)
    IN  [n \in 1..Len(full) |-> Candidate(full[n].path, repo_name)]

(***************************************************************************)
(* C20: a scan is all-or-nothing: a scan that ran into an error, also      *)
(* after some entries had matched, hands back no candidate; every other    *)
(* scan hands back the complete list of the matching entries of its tree;  *)
(* and the accumulator is the concatenation of what the scans handed back, *)
(* at every step of the search and when it returns.                        *)
(***************************************************************************)
C20_ScanAllOrNothing ==
    (InSearch \/ pc = "main_results") =>
    /\ Len(returned) = Len(TreeCalls)
    /\ all_results = Concat(returned)
    /\ \A k \in 1..Len(returned) :
         IF ScanFailed(TreeCalls[k].response)
         THEN returned[k] = <<>>
         ELSE returned[k] = MatchList(TreeCalls[k].response.tree, TreeCalls[k].target)

\* a scan fails on the element after a matching entry, while another scan
\* has contributed
C20_Witness ==
    /\ all_results # <<>>
    /\ \E k \in 1..Len(returned) :
         /\ TreeCalls[k].response.tree = BrokenTree
         /\ Wanted(BrokenTree[1])
         /\ returned[k] = <<>>

============================================================================
